---- MODULE Spec2Model ----
(***************************************************************************)
(* Model of DailyWind00/Matrix for T = f32: the reductions of Matrix<T>    *)
(* (row_echelon, determinant, inverse, rank, trace), its container and     *)
(* element-wise operations (add, sub, mul_vec, mul_mat, transpose,         *)
(* flatten, operator|), the operations of Vector<T> (add, sub, dot, norm,  *)
(* reshape) and the functions linear_combination, lerp, angle_cos and      *)
(* cross_product; dot also for T = c32.                                    *)
(*                                                                         *)
(* A scalar is a pair <<n, d>>.  d > 0 is the rational n/d in lowest       *)
(* terms.  An integer result is rounded as f32 rounds it (24 significant   *)
(* bits, to nearest, ties to even); the rounding of a fraction is          *)
(* abstracted to exact arithmetic.  d = 0 is one of the IEEE special       *)
(* values the code can produce by dividing by zero: <<0,0>> is NaN,        *)
(* <<1,0>> is +inf, <<-1,0>> is -inf.                                      *)
(*                                                                         *)
(* A matrix is the member `data`: a sequence of columns, each a sequence   *)
(* of scalars.  The code indexes from 0, sequences from 1: At(m, c, r) is  *)
(* the code's m[c][r] and every loop variable keeps its 0-based value.     *)
(***************************************************************************)
EXTENDS Integers, Sequences, FiniteSets, TLC

\* The entries of an input matrix are the integers 0 .. MaxVal.
MaxVal == 1

----------------------------------------------------------------------------
\* Scalars

Zero == <<0, 1>>
One == <<1, 1>>
NaN == <<0, 0>>
PosInf == <<1, 0>>
NegInf == <<-1, 0>>

Abs(x) == IF x < 0 THEN -x ELSE x
Sign(x) == IF x < 0 THEN -1 ELSE IF x = 0 THEN 0 ELSE 1

RECURSIVE GCD(_, _)
GCD(a, b) == IF b = 0 THEN a ELSE GCD(b, a % b)

\* The rational n/d (d # 0) in lowest terms with a positive denominator.
Rat(n, d) ==
    LET g == GCD(Abs(n), Abs(d))
    IN  <<(Sign(d) * n) \div g, Abs(d) \div g>>

IsNaN(a) == a = NaN
IsInf(a) == a = PosInf \/ a = NegInf

\* T(v) for an integer literal v
Lit(v) == <<v, 1>>

\* a == b on T: false as soon as one side is NaN
FEq(a, b) == ~IsNaN(a) /\ ~IsNaN(b) /\ a = b
\* a != b on T: true as soon as one side is NaN
FNe(a, b) == ~FEq(a, b)
\* a < b and a > b on T: false as soon as one side is NaN
FLt(a, b) ==
    /\ ~IsNaN(a) /\ ~IsNaN(b)
    /\ IF IsInf(a) \/ IsInf(b)
       THEN a # b /\ (a = NegInf \/ b = PosInf)
       ELSE a[1] * b[2] < b[1] * a[2]
FGt(a, b) == FLt(b, a)

FNeg(a) == IF IsNaN(a) THEN NaN ELSE <<-a[1], a[2]>>

\* f32 has 24 significant bits: every integer below 2^24 in magnitude is a
\* value of f32, and a larger one is rounded to a multiple of its ulp
TwoTo24 == 16777216

\* The distance between the values of f32 around the integer a >= 0
RECURSIVE Ulp(_)
Ulp(a) == IF a < TwoTo24 THEN 1 ELSE 2 * Ulp(a \div 2)

\* The multiple of u nearest to a >= 0, the even one of two equally near
RoundTo(a, u) ==
    IF 2 * (a % u) > u \/ (2 * (a % u) = u /\ (a \div u) % 2 = 1)
    THEN (a \div u + 1) * u
    ELSE (a \div u) * u

RoundInt(n) == Sign(n) * RoundTo(Abs(n), Ulp(Abs(n)))

\* The value of f32 an exact result is stored as
F32Round(x) == IF x[2] = 1 THEN <<RoundInt(x[1]), 1>> ELSE x

\* The exact product and sum
XMul(a, b) ==
    IF IsNaN(a) \/ IsNaN(b) THEN NaN
    ELSE IF IsInf(a) \/ IsInf(b) THEN <<Sign(a[1]) * Sign(b[1]), 0>>
    ELSE Rat(a[1] * b[1], a[2] * b[2])

XAdd(a, b) ==
    IF IsNaN(a) \/ IsNaN(b) THEN NaN
    ELSE IF IsInf(a) /\ IsInf(b) THEN (IF a = b THEN a ELSE NaN)
    ELSE IF IsInf(a) THEN a
    ELSE IF IsInf(b) THEN b
    ELSE Rat(a[1] * b[2] + b[1] * a[2], a[2] * b[2])

FMul(a, b) == F32Round(XMul(a, b))

FAdd(a, b) == F32Round(XAdd(a, b))

FSub(a, b) == FAdd(a, FNeg(b))

XDiv(a, b) ==
    IF IsNaN(a) \/ IsNaN(b) THEN NaN
    ELSE IF IsInf(a) THEN (IF IsInf(b) THEN NaN
                           ELSE <<a[1] * (IF b[1] < 0 THEN -1 ELSE 1), 0>>)
    ELSE IF IsInf(b) THEN Zero
    ELSE IF b[1] = 0 THEN <<Sign(a[1]), 0>>
    ELSE Rat(a[1] * b[2], a[2] * b[1])

FDiv(a, b) == F32Round(XDiv(a, b))

\* std::fma(a, b, c): the exact a * b + c, rounded once
Fma(a, b, c) == F32Round(XAdd(XMul(a, b), c))

\* Matrix::abs for an arithmetic T
FAbs(v) == IF FLt(v, Zero) THEN FNeg(v) ELSE v

----------------------------------------------------------------------------
\* Vector: the member `data` is a sequence of scalars.  A call that can throw
\* is a record [err, data] or [err, val]: the exception it left with ("none"
\* if it returned) and the receiver after the call or the value returned.

size(v) == Len(v)

\* An add whose loop stops at the end of the shorter operand instead of
\* testing the sizes
Vector_addTruncating(u, v) ==
    [err |-> "none",
     data |-> [i \in 1..size(u) |-> IF i <= size(v) THEN FAdd(u[i], v[i]) ELSE u[i]]]

\* u.add(v): data[i] += other.data[i]
Vector_add(u, v) ==
    IF size(u) # size(v)
    THEN [err |-> "invalid_argument", data |-> u]
    ELSE [err |-> "none", data |-> [i \in 1..size(u) |-> FAdd(u[i], v[i])]]

\* A sub that adds
Vector_subAdding(u, v) == Vector_add(u, v)

\* u.sub(v): data[i] -= other.data[i]
Vector_sub(u, v) ==
    IF size(u) # size(v)
    THEN [err |-> "invalid_argument", data |-> u]
    ELSE [err |-> "none", data |-> [i \in 1..size(u) |-> FSub(u[i], v[i])]]

\* result of dot after the iterations 0 .. i-1, from T()
RECURSIVE DotSum(_, _, _)
DotSum(u, v, i) ==
    IF i = 0 THEN Zero ELSE Fma(u[i], v[i], DotSum(u, v, i - 1))

\* u.dot(v) for an arithmetic T
dot(u, v) ==
    IF size(u) # size(v)
    THEN [err |-> "invalid_argument", val |-> Zero]
    ELSE [err |-> "none", val |-> DotSum(u, v, size(u))]

\* A complex number of std::complex<float> is the pair <<real part,
\* imaginary part>> of two scalars.
CZero == <<Zero, Zero>>

\* std::conj(z)
Conj(z) == <<z[1], FNeg(z[2])>>

\* a + b and a * b on std::complex<float>, for finite parts
CAdd(a, b) == <<FAdd(a[1], b[1]), FAdd(a[2], b[2])>>
CMul(a, b) ==
    <<FSub(FMul(a[1], b[1]), FMul(a[2], b[2])),
      FAdd(FMul(a[1], b[2]), FMul(a[2], b[1]))>>

\* A sum that conjugates the entries of the argument instead of those of
\* the receiver
RECURSIVE DotSumConjOther(_, _, _)
DotSumConjOther(u, v, i) ==
    IF i = 0 THEN CZero
    ELSE CAdd(DotSumConjOther(u, v, i - 1), CMul(u[i], Conj(v[i])))

\* result of dot on complex vectors after the iterations 0 .. i-1, from T():
\* result += std::conj(data[i]) * other[i]
RECURSIVE DotSumConj(_, _, _)
DotSumConj(u, v, i) ==
    IF i = 0 THEN CZero
    ELSE CAdd(DotSumConj(u, v, i - 1), CMul(Conj(u[i]), v[i]))

\* u.dot(v) for a complex T
dotComplex(u, v) ==
    IF size(u) # size(v)
    THEN [err |-> "invalid_argument", val |-> CZero]
    ELSE [err |-> "none", val |-> DotSumConj(u, v, size(u))]

\* lerp(u, v, t): result[i] = fma(t, v[i] - u[i], u[i])
lerp(u, v, t) ==
    IF size(u) # size(v)
    THEN [err |-> "invalid_argument", data |-> <<>>]
    ELSE [err |-> "none",
          data |-> [i \in 1..size(u) |-> Fma(t, FSub(v[i], u[i]), u[i])]]

\* A cross product whose entry 1 is u0*v2 - u2*v0
cross_productEntryNegated(u, v) ==
    IF size(u) # 3 \/ size(v) # 3
    THEN [err |-> "invalid_argument", data |-> <<>>]
    ELSE [err |-> "none",
          data |-> <<Fma(u[2], v[3], FNeg(FMul(u[3], v[2]))),
                     Fma(u[1], v[3], FNeg(FMul(u[3], v[1]))),
                     Fma(u[1], v[2], FNeg(FMul(u[2], v[1])))>>]

\* cross_product(u, v) for a real T
cross_product(u, v) ==
    IF size(u) # 3 \/ size(v) # 3
    THEN [err |-> "invalid_argument", data |-> <<>>]
    ELSE [err |-> "none",
          data |-> <<Fma(u[2], v[3], FNeg(FMul(u[3], v[2]))),
                     Fma(u[3], v[1], FNeg(FMul(u[1], v[3]))),
                     Fma(u[1], v[2], FNeg(FMul(u[2], v[1])))>>]

\* An iteration that stores scalar * vector[j] without the sum so far
LinCombStepOverwriting(prev, vec, sca) ==
    IF prev.err # "none" THEN prev
    ELSE IF size(vec) # size(prev.data)
    THEN [err |-> "invalid_argument", data |-> <<>>]
    ELSE [err |-> "none",
          data |-> [j \in 1..size(prev.data) |-> Fma(sca, vec[j], Zero)]]

\* One iteration of the loop of linear_combination on the result so far:
\* result[j] = fma(*scaIt, (*vecIt)[j], result[j]), unless it has thrown
LinCombStep(prev, vec, sca) ==
    IF prev.err # "none" THEN prev
    ELSE IF size(vec) # size(prev.data)
    THEN [err |-> "invalid_argument", data |-> <<>>]
    ELSE [err |-> "none",
          data |-> [j \in 1..size(prev.data) |-> Fma(sca, vec[j], prev.data[j])]]

\* result after the iterations on the first k vectors, from
\* Vector<T> result(vecIt->size())
RECURSIVE LinCombLoop(_, _, _)
LinCombLoop(vectors, scalars, k) ==
    IF k = 0
    THEN [err |-> "none", data |-> [j \in 1..size(vectors[1]) |-> Zero]]
    ELSE LinCombStep(LinCombLoop(vectors, scalars, k - 1), vectors[k], scalars[k])

\* linear_combination(vectors, scalars)
linear_combination(vectors, scalars) ==
    IF Len(vectors) # Len(scalars)
    THEN [err |-> "invalid_argument", data |-> <<>>]
    ELSE IF Len(vectors) = 0
    THEN [err |-> "none", data |-> <<>>]
    ELSE LinCombLoop(vectors, scalars, Len(vectors))

\* std::pow(x, R(0.5)): the square root has no value among the scalars of
\* the model and is kept as its radicand
Root(x) == [radicand |-> x]

\* root == R(0): the root of 0 is 0, the root of a positive value is positive
RootIsZero(root) == FEq(root.radicand, Zero)

\* result of norm after the iterations on the first i entries, from R(0):
\* result = fma(a, a, result) with a = abs(entry)
RECURSIVE NormSquares(_, _)
NormSquares(v, i) ==
    IF i = 0 THEN Zero ELSE Fma(FAbs(v[i]), FAbs(v[i]), NormSquares(v, i - 1))

\* v.norm()
norm(v) == Root(NormSquares(v, size(v)))

\* The value angle_cos returns, u.dot(v) / (uNorm * vNorm): the quotient of
\* dot and the root of radicand
Quotient(d, uNorm, vNorm) ==
    [dot |-> d, radicand |-> FMul(uNorm.radicand, vNorm.radicand)]

\* No quotient: the value before a call and after one that threw
NoQuotient == [dot |-> Zero, radicand |-> One]

\* An angle_cos that computes and tests the norms before it compares the sizes
angle_cosNormsFirst(u, v) ==
    IF RootIsZero(norm(u)) \/ RootIsZero(norm(v))
    THEN [err |-> "logic_error", val |-> NoQuotient]
    ELSE IF size(u) # size(v)
    THEN [err |-> "invalid_argument", val |-> NoQuotient]
    ELSE [err |-> "none", val |-> Quotient(dot(u, v).val, norm(u), norm(v))]

\* angle_cos(u, v) for a real T
angle_cos(u, v) ==
    IF size(u) # size(v)
    THEN [err |-> "invalid_argument", val |-> NoQuotient]
    ELSE IF RootIsZero(norm(u)) \/ RootIsZero(norm(v))
    THEN [err |-> "logic_error", val |-> NoQuotient]
    ELSE [err |-> "none", val |-> Quotient(dot(u, v).val, norm(u), norm(v))]

----------------------------------------------------------------------------
\* Matrix container

cols(m) == Len(m)
rows(m) == IF Len(m) = 0 THEN 0 ELSE Len(m[1])
shape(m) == <<rows(m), cols(m)>>
is_square(m) == rows(m) = cols(m)

At(m, c, r) == m[c + 1][r + 1]

\* The tolerance of Matrix::operator==
Eps == <<1, 100000>>

\* a == b on matrices: equal shapes and no entry with abs(a - b) > eps
MatrixEq(a, b) ==
    /\ rows(a) = rows(b)
    /\ cols(a) = cols(b)
    /\ \A c \in 0..(cols(a) - 1) : \A r \in 0..(rows(a) - 1) :
           ~FGt(FAbs(FSub(At(a, c, r), At(b, c, r))), Eps)

\* Matrix(cols, rows): nc columns of nr value-initialized entries
MatrixOfShape(nc, nr) == [c \in 1..nc |-> [r \in 1..nr |-> Zero]]

\* The matrix m, as the stored object: its columns and entries are values,
\* computed once when the matrix is assigned (the comparisons with <<>> make
\* TLC compute them here rather than at every later read).
Stored(m) ==
    IF m = <<>> THEN m
    ELSE IF \A c \in 1..Len(m) : m[c] = <<>> THEN m
    ELSE m

----------------------------------------------------------------------------
\* Matrix::row_echelon

\* The pivot search of the forward pass, from row i of column lead.  It ends
\* either on a nonzero entry (returns = FALSE) or by leaving row_echelon when
\* the columns are exhausted (returns = TRUE).
RECURSIVE FindPivot(_, _, _, _)
FindPivot(m, lead, i, r) ==
    IF FEq(At(m, lead, i), Zero)
    THEN IF i + 1 = rows(m)
         THEN IF lead + 1 = cols(m)
              THEN [returns |-> TRUE, lead |-> lead + 1, i |-> r]
              ELSE FindPivot(m, lead + 1, r, r)
         ELSE FindPivot(m, lead, i + 1, r)
    ELSE [returns |-> FALSE, lead |-> lead, i |-> i]

\* The row the swap step exchanges with row r when the search stopped at row i
SwapTarget(i) == i - 1

\* std::swap(m[k][a], m[k][b]) for every column k
SwapRows(m, a, b) ==
    Stored([c \in 1..cols(m) |-> [r \in 1..Len(m[c]) |->
        IF r - 1 = a THEN m[c][b + 1]
        ELSE IF r - 1 = b THEN m[c][a + 1]
        ELSE m[c][r]]])

\* m[k][r] /= pivot for every column k
DivideRow(m, r, pivot) ==
    Stored([c \in 1..cols(m) |-> [q \in 1..Len(m[c]) |->
        IF q - 1 = r THEN FDiv(m[c][q], pivot) ELSE m[c][q]]])

\* For every row j in the set js: factor = m[lead][j], then
\* m[k][j] -= factor * m[k][r] for every column k.  Row r is not in js, so the
\* rows are updated independently of each other.
SubtractRow(m, lead, r, js) ==
    Stored([c \in 1..cols(m) |-> [q \in 1..Len(m[c]) |->
        IF q - 1 \in js
        THEN FSub(m[c][q], FMul(m[lead + 1][q], m[c][r + 1]))
        ELSE m[c][q]]])

\* The swap step: rows r and SwapTarget(i) are exchanged when the search
\* stopped at a row i other than r
SwapStep(m, r, i) == IF i # r THEN SwapRows(m, r, SwapTarget(i)) ELSE m

\* The normalisation step: row r is divided by its entry in column lead
\* unless that entry is zero
NormalizeStep(m, lead, r) ==
    IF FNe(At(m, lead, r), Zero) THEN DivideRow(m, r, At(m, lead, r)) ELSE m

\* The elimination step of the forward pass: the rows below r
EliminateStep(m, lead, r) == SubtractRow(m, lead, r, (r + 1)..(rows(m) - 1))

\* The rest of one iteration of the forward loop for row r, after the pivot
\* search ended with p
ReduceRow(m, p, r) ==
    IF p.returns
    THEN [m |-> m, lead |-> p.lead, returns |-> TRUE]
    ELSE [m |-> EliminateStep(NormalizeStep(SwapStep(m, r, p.i), p.lead, r),
                              p.lead, r),
          lead |-> p.lead + 1,
          returns |-> FALSE]

\* One iteration of the forward loop for row r, after the `lead >= cols()` test
ForwardRow(m, lead, r) == ReduceRow(m, FindPivot(m, lead, r, r), r)

\* The forward loop from row r on, on the state s = [m, lead, returns];
\* returns says that the pivot search has left row_echelon
RECURSIVE Forward(_, _)
Forward(s, r) ==
    IF s.returns \/ r >= rows(s.m) \/ s.lead >= cols(s.m)
    THEN s
    ELSE Forward(ForwardRow(s.m, s.lead, r), r + 1)

\* The first column at or after pc whose entry in row r is not zero, or cols()
RECURSIVE PivotCol(_, _, _)
PivotCol(m, r, pc) ==
    IF pc < cols(m) /\ FEq(At(m, pc, r), Zero) THEN PivotCol(m, r, pc + 1) ELSE pc

\* One iteration of the backward loop for row r whose pivot column is pc
BackwardRow(m, r, pc) ==
    IF pc = cols(m) THEN m ELSE SubtractRow(m, pc, r, 0..(r - 1))

\* The backward loop from row r down to row 0
RECURSIVE Backward(_, _)
Backward(m, r) ==
    IF r < 0 THEN m
    ELSE Backward(BackwardRow(m, r, PivotCol(m, r, 0)), r - 1)

\* The end of row_echelon after the forward loop ended in the state f
AfterForward(f) ==
    IF f.returns THEN f.m ELSE Backward(f.m, rows(f.m) - 1)

row_echelon(m) ==
    AfterForward(Forward([m |-> m, lead |-> 0, returns |-> FALSE], 0))

\* The counting loop of rank: the rows of ref with an entry != 0
NonZeroRows(ref) ==
    Cardinality({r \in 0..(rows(ref) - 1) :
                    \E c \in 0..(cols(ref) - 1) : FNe(At(ref, c, r), Zero)})

\* Matrix::rank
rank(m) == NonZeroRows(row_echelon(m))

\* Matrix(std::initializer_list<Vector<T>> rows) for rows of one length
FromRows(rs) ==
    IF Len(rs) = 0 THEN <<>>
    ELSE [c \in 1..Len(rs[1]) |-> [r \in 1..Len(rs) |-> Lit(rs[r][c])]]

----------------------------------------------------------------------------
\* Matrix::transpose, operator|, mul_mat, trace

transpose(m) ==
    [c \in 1..rows(m) |-> [r \in 1..cols(m) |-> m[r][c]]]

\* A concatenation that puts the columns of b first
ConcatArgumentFirst(a, b) ==
    IF rows(a) # rows(b)
    THEN [err |-> "invalid_argument", m |-> <<>>]
    ELSE [err |-> "none",
          m |-> [c \in 1..(cols(a) + cols(b)) |->
                    [r \in 1..rows(a) |->
                        IF c <= cols(b) THEN b[c][r] ELSE a[c - cols(b)][r]]]]

\* a | b
Concat(a, b) ==
    IF rows(a) # rows(b)
    THEN [err |-> "invalid_argument", m |-> <<>>]
    ELSE [err |-> "none",
          m |-> [c \in 1..(cols(a) + cols(b)) |->
                    [r \in 1..rows(a) |->
                        IF c <= cols(a) THEN a[c][r] ELSE b[c - cols(a)][r]]]]

\* result[c][r] after the iterations 0 .. k-1 of the innermost loop of mul_mat
RECURSIVE DotRowCol(_, _, _, _, _)
DotRowCol(a, b, c, r, k) ==
    IF k = 0 THEN Zero
    ELSE Fma(At(a, k - 1, r), At(b, c, k - 1), DotRowCol(a, b, c, r, k - 1))

\* a.mul_mat(b).  The result is constructed with rows(a) columns of cols(b)
\* entries and written at [c][r] for c < cols(b), r < rows(a): ub says that
\* one of these writes is outside the storage of the result.
mul_mat(a, b) ==
    IF cols(a) # rows(b)
    THEN [err |-> "invalid_argument", ub |-> FALSE, m |-> <<>>]
    ELSE LET res == MatrixOfShape(rows(a), cols(b))
             written == cols(b) > 0 /\ rows(a) > 0 /\ cols(a) > 0
         IN  [err |-> "none",
              ub |-> written /\ rows(a) # cols(b),
              m |-> [c \in 1..cols(res) |-> [r \in 1..rows(res) |->
                        IF c <= cols(b) /\ r <= rows(a)
                        THEN DotRowCol(a, b, c - 1, r - 1, cols(a))
                        ELSE Zero]]]

\* result after adding the diagonal entries 0 .. i-1
RECURSIVE TraceSum(_, _)
TraceSum(m, i) ==
    IF i = 0 THEN Zero ELSE FAdd(TraceSum(m, i - 1), At(m, i - 1, i - 1))

\* A trace without the is_square test, over the common diagonal
traceUnchecked(m) ==
    [err |-> "none",
     val |-> TraceSum(m, IF rows(m) < cols(m) THEN rows(m) ELSE cols(m))]

trace(m) ==
    IF ~is_square(m)
    THEN [err |-> "invalid_argument", val |-> Zero]
    ELSE [err |-> "none", val |-> TraceSum(m, cols(m))]

----------------------------------------------------------------------------
\* Matrix(std::vector<Vector<T>>), add, sub, mul_vec and Vector::reshape

\* Matrix(std::vector<Vector<T>> other): data is the sequence it is given
FromColumns(cs) == cs

\* All columns have the length of column 0
Rectangular(m) == \A c \in 1..cols(m) : Len(m[c]) = rows(m)

\* data[i].add(other[i]) or data[i].sub(other[i])
ColumnOp(name, u, v) ==
    IF name = "add" THEN Vector_add(u, v) ELSE Vector_sub(u, v)

\* The matrix m after its column i was assigned by the call c on that column
WithColumn(m, i, c) == [err |-> c.err, data |-> [m EXCEPT ![i + 1] = c.data]]

\* The loop of add and sub over the columns from column i on, on the state
\* s = [err, data]; it ends when the call on a column has thrown
RECURSIVE ColumnLoop(_, _, _, _)
ColumnLoop(name, s, b, i) ==
    IF s.err # "none" \/ i >= cols(s.data) THEN s
    ELSE ColumnLoop(name,
                    WithColumn(s.data, i, ColumnOp(name, s.data[i + 1], b[i + 1])),
                    b, i + 1)

\* a.add(b) and a.sub(b): the test of the shapes, then the loop
Columnwise(name, a, b) ==
    IF shape(a) # shape(b)
    THEN [err |-> "invalid_argument", data |-> a]
    ELSE ColumnLoop(name, [err |-> "none", data |-> a], b, 0)

Matrix_add(a, b) == Columnwise("add", a, b)
Matrix_sub(a, b) == Columnwise("sub", a, b)

\* result[c] of mul_vec after the iterations 0 .. r-1 of its inner loop
RECURSIVE MulVecSum(_, _, _, _)
MulVecSum(m, v, c, r) ==
    IF r = 0 THEN Zero
    ELSE Fma(At(m, c, r - 1), v[r], MulVecSum(m, v, c, r - 1))

\* A mul_vec that compares the size of the vector with cols()
mul_vecColsTest(m, v) ==
    IF cols(m) # size(v)
    THEN [err |-> "invalid_argument", data |-> <<>>]
    ELSE [err |-> "none",
          data |-> [c \in 1..cols(m) |->
                       MulVecSum(m, v, c - 1,
                                 IF rows(m) < size(v) THEN rows(m) ELSE size(v))]]

\* m.mul_vec(v)
mul_vec(m, v) ==
    IF rows(m) # size(v)
    THEN [err |-> "invalid_argument", data |-> <<>>]
    ELSE [err |-> "none",
          data |-> [c \in 1..cols(m) |-> MulVecSum(m, v, c - 1, rows(m))]]

\* v.reshape(nrows, ncols): the vectors row of the loop, each of ncols
\* entries, are pushed to mat, and mat is given to Matrix(std::vector)
reshape(v, nrows, ncols) ==
    IF nrows * ncols # size(v)
    THEN [err |-> "invalid_argument", m |-> <<>>]
    ELSE [err |-> "none",
          m |-> FromColumns([i \in 1..nrows |->
                                [j \in 1..ncols |-> v[(i - 1) * ncols + j]]])]

\* vec after the loop of flatten has pushed the entries of the first c columns
RECURSIVE FlattenColumns(_, _)
FlattenColumns(m, c) ==
    IF c = 0 THEN <<>> ELSE FlattenColumns(m, c - 1) \o m[c]

\* A flatten that reads a matrix with columns of one length row by row
flattenRowByRow(m) ==
    IF Rectangular(m)
    THEN [k \in 1..(rows(m) * cols(m)) |->
             m[((k - 1) % cols(m)) + 1][((k - 1) \div cols(m)) + 1]]
    ELSE FlattenColumns(m, cols(m))

\* m.flatten(): the entries of the columns, one column after the other
flatten(m) == FlattenColumns(m, cols(m))

----------------------------------------------------------------------------
\* Matrix::determinant

\* The first index j >= from with tmp.data[j][i] != 0, or rows() if none
RECURSIVE DetFindSwap(_, _, _)
DetFindSwap(m, i, from) ==
    IF from >= rows(m) THEN rows(m)
    ELSE IF FNe(At(m, from, i), Zero) THEN from
    ELSE DetFindSwap(m, i, from + 1)

\* std::swap(tmp.data[a], tmp.data[b])
SwapCols(m, a, b) ==
    [c \in 1..cols(m) |-> IF c = a + 1 THEN m[b + 1]
                          ELSE IF c = b + 1 THEN m[a + 1] ELSE m[c]]

\* The inner loops of one elimination step: for every j > i,
\* factor = tmp.data[j][i] / tmp.data[i][i], then
\* tmp.data[j][k] = fma(-factor, tmp.data[i][k], tmp.data[j][k]) for k >= i.
DetEliminate(m, i) ==
    Stored([j \in 1..cols(m) |-> [k \in 1..Len(m[j]) |->
        IF j - 1 > i /\ k - 1 >= i
        THEN Fma(FNeg(FDiv(m[j][i + 1], m[i + 1][i + 1])), m[i + 1][k], m[j][k])
        ELSE m[j][k]]])

\* The search of iteration i: the j at which the inner loop stops, rows() when
\* the diagonal entry is not zero or nothing is found
DetSearch(m, i) ==
    IF FEq(At(m, i, i), Zero) THEN DetFindSwap(m, i, i + 1) ELSE rows(m)

\* The swap of iteration i on the state s = [m, swaps, zerodiv]
DetSwap(s, i, j) ==
    IF j < rows(s.m)
    THEN [m |-> SwapCols(s.m, i, j), swaps |-> s.swaps + 1, zerodiv |-> s.zerodiv]
    ELSE s

\* The elimination of iteration i; zerodiv records a division by a zero
\* diagonal entry
DetDivide(s, i) ==
    [m |-> DetEliminate(s.m, i),
     swaps |-> s.swaps,
     zerodiv |-> s.zerodiv \/ (i + 1 < rows(s.m) /\ FEq(At(s.m, i, i), Zero))]

\* One iteration of the elimination loop of determinant
DetStep(s, i) == DetDivide(DetSwap(s, i, DetSearch(s.m, i)), i)

\* The elimination loop from iteration i on
RECURSIVE DetLoopFrom(_, _)
DetLoopFrom(s, i) ==
    IF i >= rows(s.m) THEN s ELSE DetLoopFrom(DetStep(s, i), i + 1)

\* The state after the elimination loop on a copy of m
DetLoop(m) == DetLoopFrom([m |-> m, swaps |-> 0, zerodiv |-> FALSE], 0)

\* det after multiplying by the diagonal entries 0 .. i-1
RECURSIVE DiagProduct(_, _, _)
DiagProduct(m, det, i) ==
    IF i = 0 THEN det ELSE FMul(DiagProduct(m, det, i - 1), At(m, i - 1, i - 1))

\* The value returned after the elimination loop ended in the state s
DetResult(s) ==
    DiagProduct(s.m, IF s.swaps % 2 = 0 THEN Lit(1) ELSE Lit(-1), rows(s.m))

\* determinant() of a square matrix
determinant(m) ==
    IF rows(m) = 1 THEN At(m, 0, 0)
    ELSE IF rows(m) = 2
    THEN FSub(FMul(At(m, 0, 0), At(m, 1, 1)), FMul(At(m, 1, 0), At(m, 0, 1)))
    ELSE DetResult(DetLoop(m))

----------------------------------------------------------------------------
\* Matrix::inverse

\* A pivot search that keeps pivot_row = i
PivotRowNoSearch(aug, i, j) == i

\* pivot_row after the search loop has looked at the rows i .. j-1
RECURSIVE PivotRow(_, _, _)
PivotRow(aug, i, j) ==
    IF j = i THEN i
    ELSE LET p == PivotRow(aug, i, j - 1)
         IN  IF FGt(FAbs(At(aug, i, j - 1)), FAbs(At(aug, i, p))) THEN j - 1 ELSE p

\* A swap whose loop stops at column n: the identity half keeps its rows
InvSwapLeftHalf(aug, i, pivot_row) ==
    [c \in 1..cols(aug) |->
        IF c <= rows(aug) THEN SwapRows(aug, i, pivot_row)[c] ELSE aug[c]]

\* The swap of step i: rows i and pivot_row are exchanged when they differ
InvSwap(aug, i, pivot_row) ==
    IF pivot_row # i THEN SwapRows(aug, i, pivot_row) ELSE aug

\* The elimination of step i: every row other than i
InvEliminate(aug, i) == SubtractRow(aug, i, i, (0..(rows(aug) - 1)) \ {i})

\* The rest of step i without the test `pivot == T(0)`
PivotStepUnchecked(aug, i) ==
    [err |-> "none", m |-> InvEliminate(DivideRow(aug, i, At(aug, i, i)), i)]

\* The rest of step i after the swap: the test of the pivot, the
\* normalisation of row i and the elimination
PivotStep(aug, i) ==
    IF FEq(At(aug, i, i), Zero)
    THEN [err |-> "logic_error", m |-> aug]
    ELSE [err |-> "none", m |-> InvEliminate(DivideRow(aug, i, At(aug, i, i)), i)]

\* Step i of the Gauss-Jordan loop of inverse; rows() of the augmented matrix
\* is n
GaussJordanStep(aug, i) ==
    PivotStep(InvSwap(aug, i, PivotRow(aug, i, rows(aug))), i)

\* The Gauss-Jordan loop from step i on, on the state g = [err, m]; it ends
\* when a step has thrown
RECURSIVE GaussJordan(_, _)
GaussJordan(g, i) ==
    IF g.err # "none" \/ i >= rows(g.m) THEN g
    ELSE GaussJordan(GaussJordanStep(g.m, i), i + 1)

\* The inverse part of the augmented matrix: its columns n .. 2n-1
InvExtract(aug) ==
    [c \in 1..rows(aug) |-> [r \in 1..rows(aug) |-> aug[c + rows(aug)][r]]]

\* Matrix<T> identity(n, n) with ones on the diagonal
Identity(n) == [c \in 1..n |-> [r \in 1..n |-> IF r = c THEN One ELSE Zero]]

----------------------------------------------------------------------------
\* The four reductions as calls on a receiver.
\*
\* A memory is a record [this, local]: the matrix the method is called on and
\* the matrix the method builds and works on.  Each method names the object
\* its elimination writes to.

Fresh(m) == [this |-> m, local |-> <<>>]
Write(memory, obj, val) == [memory EXCEPT ![obj] = val]

\* row_echelon working on the receiver instead of a copy
ReResultAliased == "this"
\* `Matrix<T> result(*this)` in row_echelon
ReResult == "local"
\* `Matrix<T> tmp = *this` in determinant
DetTmp == "local"
\* `Matrix<T> augmented = *this | identity` in inverse
InvAugmented == "local"

\* A call that returns the object obj of its memory
ReturnObject(memory, obj) == [mem |-> memory, err |-> "none", ret |-> memory[obj]]

\* row_echelon on the copy: the elimination reads and writes ReResult
RowEchelonRun(memory) ==
    Write(memory, ReResult, row_echelon(memory[ReResult]))

RowEchelonCall(memory) ==
    ReturnObject(RowEchelonRun(Write(memory, ReResult, memory.this)), ReResult)

\* The counting loop of rank on the matrix the call ref returned
RankCount(ref) == [mem |-> ref.mem, err |-> "none", ret |-> NonZeroRows(ref.ret)]

RankCall(memory) == RankCount(RowEchelonCall(memory))

\* The end of determinant after its elimination loop ended in the state s
DetReturn(memory, s) ==
    [mem |-> Write(memory, DetTmp, s.m), err |-> "none", ret |-> DetResult(s)]

\* The elimination of determinant on the copy
DetRun(memory) == DetReturn(memory, DetLoop(memory[DetTmp]))

DeterminantCall(memory) ==
    IF ~is_square(memory.this)
    THEN [mem |-> memory, err |-> "invalid_argument", ret |-> Zero]
    ELSE IF rows(memory.this) \in {1, 2}
    THEN [mem |-> memory, err |-> "none", ret |-> determinant(memory.this)]
    ELSE DetRun(Write(memory, DetTmp, memory.this))

\* The end of inverse after its Gauss-Jordan loop ended in the state g
InvReturn(memory, g) ==
    [mem |-> Write(memory, InvAugmented, g.m),
     err |-> g.err,
     ret |-> IF g.err # "none" THEN <<>> ELSE InvExtract(g.m)]

\* The Gauss-Jordan loop of inverse on the augmented matrix
InvRun(memory) ==
    InvReturn(memory, GaussJordan([err |-> "none", m |-> memory[InvAugmented]], 0))

\* inverse after its call d of determinant
InvAfterDet(d) ==
    IF FEq(d.ret, Zero)
    THEN [mem |-> d.mem, err |-> "logic_error", ret |-> <<>>]
    ELSE InvRun(Write(d.mem, InvAugmented,
                      Concat(d.mem.this, Identity(rows(d.mem.this))).m))

InverseCall(memory) ==
    IF ~is_square(memory.this)
    THEN [mem |-> memory, err |-> "invalid_argument", ret |-> <<>>]
    ELSE InvAfterDet(DeterminantCall(memory))

\* this->inverse() as a function of the matrix
InverseOf(call) == [err |-> call.err, m |-> call.ret]
inverse(m) == InverseOf(InverseCall(Fresh(m)))

----------------------------------------------------------------------------
\* The state machine: a caller holds one object and calls operations on it.

VARIABLES
    recv,   \* the class of the object the caller holds: "Matrix", "Vector"
            \* (Vector<f32>) or "ComplexVector" (Vector<c32>)
    this,   \* the object the caller holds: the receiver of the call
    saved,  \* the caller's copy of the object, taken when it was constructed
    op,     \* the operation called last, "none" before the first call
    args,   \* the arguments of the call, in order
    err,    \* the exception the call left with, "none" if it returned
    ub,     \* the call read or wrote an element outside its storage
    retM,   \* the matrix the call returned
    retV,   \* the vector the call returned
    retS,   \* the scalar the call returned (determinant, trace, dot)
    retC,   \* the complex number the call returned: <<real part, imaginary part>>
    retQ,   \* the quotient the call returned (angle_cos)
    retN    \* the size_t the call returned (rank)

vars == <<recv, this, saved, op, args, err, ub, retM, retV, retS, retC, retQ, retN>>

InVals == 0..MaxVal

\* The shapes <<rows, cols>> of the inputs: up to 3 rows and 3 columns, so
\* that the square inputs have the orders 0, 1 and 2 (the closed forms of
\* determinant) and 3 (the smallest order that runs its elimination loop).
\* A matrix without columns has no rows.
Shapes == {s \in (0..3) \X (0..3) : s[2] = 0 => s[1] = 0}

Inputs ==
    UNION {[1..s[2] -> [1..s[1] -> {Lit(v) : v \in InVals}]] : s \in Shapes}

\* The state of a caller that has constructed its object and called nothing
NothingCalled ==
    /\ saved = this
    /\ op = "none"
    /\ args = <<>>
    /\ err = "none"
    /\ ub = FALSE
    /\ retM = <<>>
    /\ retV = <<>>
    /\ retS = Zero
    /\ retC = <<Zero, Zero>>
    /\ retQ = NoQuotient
    /\ retN = 0

Init ==
    /\ recv = "Matrix"
    /\ this \in Inputs
    /\ NothingCalled

Returned(call, name) ==
    /\ op' = name
    /\ this' = call.mem.this
    /\ err' = call.err

CallRowEchelon ==
    /\ op = "none"
    /\ \E call \in {RowEchelonCall(Fresh(this))} :
           /\ Returned(call, "row_echelon")
           /\ retM' = call.ret
    /\ UNCHANGED <<recv, saved, args, ub, retV, retS, retC, retQ, retN>>

CallRank ==
    /\ op = "none"
    /\ \E call \in {RankCall(Fresh(this))} :
           /\ Returned(call, "rank")
           /\ retN' = call.ret
    /\ UNCHANGED <<recv, saved, args, ub, retM, retV, retS, retC, retQ>>

CallDeterminant ==
    /\ op = "none"
    /\ \E call \in {DeterminantCall(Fresh(this))} :
           /\ Returned(call, "determinant")
           /\ retS' = call.ret
    /\ UNCHANGED <<recv, saved, args, ub, retM, retV, retC, retQ, retN>>

CallInverse ==
    /\ op = "none"
    /\ \E call \in {InverseCall(Fresh(this))} :
           /\ Returned(call, "inverse")
           /\ retM' = call.ret
    /\ UNCHANGED <<recv, saved, args, ub, retV, retS, retC, retQ, retN>>

CallTrace ==
    /\ op = "none"
    /\ \E call \in {trace(this)} :
           /\ op' = "trace"
           /\ err' = call.err
           /\ retS' = call.val
    /\ UNCHANGED <<recv, this, saved, args, ub, retM, retV, retC, retQ, retN>>

Next ==
    \/ CallRowEchelon
    \/ CallRank
    \/ CallDeterminant
    \/ CallInverse
    \/ CallTrace

Spec == Init /\ [][Next]_vars

----------------------------------------------------------------------------
\* The state machine of the element-wise operations, the products and the
\* container operations: the caller holds a vector or a matrix and calls an
\* operation on it with arguments of its choice; sub can follow an add with
\* the argument of the add.

\* The vectors of up to 4 entries: 4 is the smallest size with a square
\* reshape of more than one entry, 3 the size cross_product takes
Vectors == UNION {[1..n -> {Lit(v) : v \in InVals}] : n \in 0..4}

\* The columns of the matrices: vectors of up to 2 entries
Columns == UNION {[1..n -> {Lit(v) : v \in InVals}] : n \in 0..2}

\* The matrices Matrix(std::vector<Vector<T>>) constructs from up to 2 columns
Matrices == {FromColumns(cs) : cs \in UNION {[1..n -> Columns] : n \in 0..2}}

\* The matrices Matrix(cols, rows) and the initializer list construct
RectMatrices == {m \in Matrices : Rectangular(m)}

\* A value of f32 of more than 24 bits: next to it, an entry of 1 is lost to
\* the rounding of a sum
Wide == 33554432

\* The vectors and the matrices with an entry of that size
WideVectors == {<<Lit(Wide)>>}
WideMatrices == {FromColumns(<<v>>) : v \in WideVectors}

\* The complex entries, and the vectors of up to 2 of them
Complexes == {<<Lit(a), Lit(b)>> : a \in InVals, b \in InVals}
ComplexVectors == UNION {[1..n -> Complexes] : n \in 0..2}

\* The values of t given to lerp
LerpTs == {Zero, One, Rat(1, 2)}

InitOps ==
    /\ \/ recv = "Vector" /\ this \in Vectors \cup WideVectors
       \/ recv = "Matrix" /\ this \in Matrices
       \/ recv = "ComplexVector" /\ this \in ComplexVectors
    /\ NothingCalled

\* The arguments sub is called with: any, or those of the add it follows
FirstOrAfterAdd(b) ==
    \/ op = "none"
    \/ op = "add" /\ err = "none" /\ b = args[1]

\* A call of a void member function that mutates its receiver
Mutated(call, name, b) ==
    /\ op' = name
    /\ args' = <<b>>
    /\ this' = call.data
    /\ err' = call.err
    /\ UNCHANGED <<recv, saved, ub, retM, retV, retS, retC, retQ, retN>>

\* A call that returns a vector and leaves its receiver alone
ReturnedVector(call, name, as) ==
    /\ op' = name
    /\ args' = as
    /\ err' = call.err
    /\ retV' = call.data
    /\ UNCHANGED <<recv, this, saved, ub, retM, retS, retC, retQ, retN>>

\* A call that returns a matrix and leaves its receiver alone
ReturnedMatrix(call, name, as) ==
    /\ op' = name
    /\ args' = as
    /\ err' = call.err
    /\ retM' = call.m
    /\ UNCHANGED <<recv, this, saved, ub, retV, retS, retC, retQ, retN>>

CallVectorAdd ==
    /\ recv = "Vector" /\ op = "none"
    /\ \E v \in Vectors \cup WideVectors : Mutated(Vector_add(this, v), "add", v)

CallVectorSub ==
    /\ recv = "Vector"
    /\ \E v \in Vectors \cup WideVectors :
           FirstOrAfterAdd(v) /\ Mutated(Vector_sub(this, v), "sub", v)

CallDot ==
    /\ recv = "Vector" /\ op = "none"
    /\ \E v \in Vectors : \E call \in {dot(this, v)} :
           /\ op' = "dot"
           /\ args' = <<v>>
           /\ err' = call.err
           /\ retS' = call.val
    /\ UNCHANGED <<recv, this, saved, ub, retM, retV, retC, retQ, retN>>

CallDotComplex ==
    /\ recv = "ComplexVector" /\ op = "none"
    /\ \E v \in ComplexVectors : \E call \in {dotComplex(this, v)} :
           /\ op' = "dot"
           /\ args' = <<v>>
           /\ err' = call.err
           /\ retC' = call.val
    /\ UNCHANGED <<recv, this, saved, ub, retM, retV, retS, retQ, retN>>

\* The norms are computed on entries whose squares have a sum below 2^24
CallAngleCos ==
    /\ recv = "Vector" /\ op = "none" /\ this \in Vectors
    /\ \E v \in Vectors : \E call \in {angle_cos(this, v)} :
           /\ op' = "angle_cos"
           /\ args' = <<v>>
           /\ err' = call.err
           /\ retQ' = call.val
    /\ UNCHANGED <<recv, this, saved, ub, retM, retV, retS, retC, retN>>

CallLerp ==
    /\ recv = "Vector" /\ op = "none"
    /\ \E v \in Vectors \cup WideVectors : \E t \in LerpTs :
           ReturnedVector(lerp(this, v, t), "lerp", <<v, t>>)

\* The scalars given to linear_combination
LinCombScalars == {Lit(v) : v \in InVals} \cup {Lit(-1), Rat(1, 2)}

\* The lists of up to n elements of S
ListsOf(S, n) == UNION {[1..k -> S] : k \in 0..n}

\* The lists of vectors given to linear_combination: none, or the vector the
\* caller holds and up to one more
LinCombVectors(first) == {<<>>} \cup {<<first>> \o rest : rest \in ListsOf(Columns, 1)}

CallLinearCombination ==
    /\ recv = "Vector" /\ op = "none" /\ this \in Vectors
    /\ \E vectors \in LinCombVectors(this) : \E scalars \in ListsOf(LinCombScalars, 2) :
           ReturnedVector(linear_combination(vectors, scalars),
                          "linear_combination", <<vectors, scalars>>)

CallCrossProduct ==
    /\ recv = "Vector" /\ op = "none"
    /\ \E v \in Vectors :
           ReturnedVector(cross_product(this, v), "cross_product", <<v>>)

CallReshape ==
    /\ recv = "Vector" /\ op = "none"
    /\ \E nrows \in 0..4 : \E ncols \in 0..4 :
           ReturnedMatrix(reshape(this, nrows, ncols), "reshape", <<nrows, ncols>>)

\* The matrix flatten is called on: the one the caller holds, or the one a
\* reshape of its vector returned
FlattenReceiver == IF recv = "Matrix" THEN this ELSE retM

CallFlatten ==
    /\ \/ recv = "Matrix" /\ op = "none"
       \/ recv = "Vector" /\ op = "reshape" /\ err = "none"
    /\ op' = "flatten"
    /\ args' = <<>>
    /\ err' = "none"
    /\ retV' = flatten(FlattenReceiver)
    /\ UNCHANGED <<recv, this, saved, ub, retM, retS, retC, retQ, retN>>

CallMatrixAdd ==
    /\ recv = "Matrix" /\ op = "none"
    /\ \E b \in Matrices \cup WideMatrices : Mutated(Matrix_add(this, b), "add", b)

CallMatrixSub ==
    /\ recv = "Matrix"
    /\ \E b \in Matrices \cup WideMatrices :
           FirstOrAfterAdd(b) /\ Mutated(Matrix_sub(this, b), "sub", b)

CallMulVec ==
    /\ recv = "Matrix" /\ op = "none" /\ Rectangular(this)
    /\ \E v \in Columns : ReturnedVector(mul_vec(this, v), "mul_vec", <<v>>)

\* What a call that wrote outside the storage of its result can return: the
\* result with the writes that were inside, or nothing
AfterOutOfRange(call) == IF call.ub THEN {call.m, <<>>} ELSE {call.m}

CallMulMat ==
    /\ recv = "Matrix" /\ op = "none" /\ Rectangular(this)
    /\ \E b \in RectMatrices : \E call \in {mul_mat(this, b)} :
           /\ op' = "mul_mat"
           /\ args' = <<b>>
           /\ err' = call.err
           /\ ub' = call.ub
           /\ retM' \in AfterOutOfRange(call)
    /\ UNCHANGED <<recv, this, saved, retV, retS, retC, retQ, retN>>

\* transpose() as a call: it cannot throw
TransposeCall(m) == [err |-> "none", m |-> transpose(m)]

CallTranspose ==
    /\ recv = "Matrix" /\ op = "none" /\ Rectangular(this)
    /\ ReturnedMatrix(TransposeCall(this), "transpose", <<>>)

CallConcat ==
    /\ recv = "Matrix" /\ op = "none" /\ Rectangular(this)
    /\ \E b \in RectMatrices : ReturnedMatrix(Concat(this, b), "concat", <<b>>)

NextOps ==
    \/ CallVectorAdd
    \/ CallVectorSub
    \/ CallDot
    \/ CallDotComplex
    \/ CallAngleCos
    \/ CallLerp
    \/ CallCrossProduct
    \/ CallLinearCombination
    \/ CallReshape
    \/ CallFlatten
    \/ CallMatrixAdd
    \/ CallMatrixSub
    \/ CallMulVec
    \/ CallMulMat
    \/ CallTranspose
    \/ CallConcat

SpecOps == InitOps /\ [][NextOps]_vars

----------------------------------------------------------------------------
\* Mathematical reference definitions, on the integer entries of an input

\* The integer of an entry of an input matrix
IntAt(m, c, r) == At(m, c, r)[1]

\* The permutation sum restricted to the rows rs[i..] of m and the columns of
\* cs not in used, scanning the candidate columns cs[j..] for row rs[i]; the
\* sign of a choice is the parity of the inversions it adds.
RECURSIVE PermSum(_, _, _, _, _, _)
PermSum(m, rs, cs, i, used, j) ==
    IF i > Len(rs) THEN 1
    ELSE IF j > Len(cs) THEN 0
    ELSE (IF j \in used THEN 0
          ELSE (IF Cardinality({u \in used : u > j}) % 2 = 0 THEN 1 ELSE -1)
               * IntAt(m, cs[j], rs[i])
               * PermSum(m, rs, cs, i + 1, used \cup {j}, 1))
         + PermSum(m, rs, cs, i, used, j + 1)

\* The Leibniz determinant of the submatrix of m with the rows rs and columns cs
Minor(m, rs, cs) == PermSum(m, rs, cs, 1, {}, 1)

\* The increasing sequence of the elements of a set of integers
Sorted(S) ==
    [i \in 1..Cardinality(S) |-> CHOOSE x \in S : Cardinality({y \in S : y < x}) = i - 1]

\* The Leibniz determinant of a square integer matrix
Leibniz(m) ==
    Minor(m, [i \in 1..rows(m) |-> i - 1], [i \in 1..cols(m) |-> i - 1])

\* The rank of an integer matrix: the largest order of a nonzero minor, which
\* is the largest number of linearly independent rows
MathRank(m) ==
    LET HasMinor(k) ==
            \E R \in SUBSET (0..(rows(m) - 1)) : \E C \in SUBSET (0..(cols(m) - 1)) :
                /\ Cardinality(R) = k
                /\ Cardinality(C) = k
                /\ Minor(m, Sorted(R), Sorted(C)) # 0
        ks == {k \in 1..rows(m) : k <= cols(m) /\ HasMinor(k)}
    IN  IF ks = {} THEN 0 ELSE CHOOSE k \in ks : \A q \in ks : q <= k

----------------------------------------------------------------------------
\* Reduced row-echelon form

ZeroRow(m, r) == \A c \in 0..(cols(m) - 1) : At(m, c, r) = Zero
\* The column of the leading (first nonzero) entry of a nonzero row
LeadCol(m, r) ==
    CHOOSE c \in 0..(cols(m) - 1) :
        /\ At(m, c, r) # Zero
        /\ \A b \in 0..(c - 1) : At(m, b, r) = Zero

IsRREF(m) ==
    \A r \in 0..(rows(m) - 1) :
        IF ZeroRow(m, r)
        THEN \A q \in (r + 1)..(rows(m) - 1) : ZeroRow(m, q)
        ELSE /\ At(m, LeadCol(m, r), r) = One
             /\ \A q \in 0..(rows(m) - 1) : q # r => At(m, LeadCol(m, r), q) = Zero
             /\ \A q \in 0..(r - 1) :
                    ~ZeroRow(m, q) /\ LeadCol(m, q) < LeadCol(m, r)

\* C1: for every input matrix, row_echelon returns a matrix of the same shape
\* that is in reduced row-echelon form.
C1_RowEchelonIsRREF ==
    op = "row_echelon" => shape(retM) = shape(this) /\ IsRREF(retM)

\* C2: row_echelon is idempotent: applied to its own result it returns a
\* matrix that equals (operator==) that result.
C2_RowEchelonIdempotent ==
    op = "row_echelon" => MatrixEq(row_echelon(retM), retM)

\* C3: the rank of a matrix equals the rank of its row-echelon form.
C3_RankOfRowEchelon ==
    op = "row_echelon" => rank(retM) = rank(this)

\* C4: rank returns the largest number of linearly independent rows.
C4_RankIsRowRank ==
    op = "rank" => retN = MathRank(this)

\* C5: on every square matrix determinant returns the Leibniz determinant, in
\* particular zero on every singular matrix.
C5_DeterminantIsLeibniz ==
    (op = "determinant" /\ err = "none") => FEq(retS, Lit(Leibniz(this)))

\* C6: the determinant of a square matrix equals that of its transpose.
C6_DeterminantOfTranspose ==
    (op = "determinant" /\ err = "none") => FEq(retS, determinant(transpose(this)))

\* C7: on every square matrix with a nonzero determinant, inverse returns a
\* matrix B of the same order with A.mul_mat(B) the identity matrix.
C7_InverseTimesSelf ==
    (op = "inverse" /\ is_square(this) /\ Leibniz(this) # 0) =>
        /\ err = "none"
        /\ shape(retM) = shape(this)
        /\ LET p == mul_mat(this, retM)
           IN  p.err = "none" /\ ~p.ub /\ p.m = Identity(rows(this))

\* An order-3 matrix with a zero in its top left corner was inverted, so a
\* row exchange took place, and the inverse differs from the matrix.
C7_Witness ==
    /\ op = "inverse" /\ err = "none"
    /\ rows(this) = 3 /\ At(this, 0, 0) = Zero
    /\ retM # this

\* C8: on every square matrix whose determinant is zero, inverse leaves with
\* the singular-matrix error (std::logic_error) and returns nothing.
C8_SingularInverseThrows ==
    (op = "inverse" /\ is_square(this) /\ Leibniz(this) = 0) =>
        err = "logic_error" /\ retM = <<>>

\* inverse threw on an order-3 matrix for which determinant divided by a zero
\* diagonal entry after its search found nothing to swap in.
C8_Witness ==
    /\ op = "inverse" /\ err = "logic_error"
    /\ rows(this) = 3 /\ cols(this) = 3
    /\ DetLoop(this).zerodiv

\* C9: trace, determinant and inverse leave with std::invalid_argument on
\* every matrix that is not square; inverse does so before any singularity test.
C9_NonSquareThrows ==
    (op \in {"trace", "determinant", "inverse"} /\ rows(this) # cols(this)) =>
        err = "invalid_argument"

\* inverse was called on a matrix with more columns than rows whose rows are
\* equal, and left with std::invalid_argument.
C9_Witness ==
    /\ op = "inverse" /\ err = "invalid_argument"
    /\ rows(this) = 2 /\ cols(this) = 3
    /\ \A c \in 0..2 : At(this, c, 0) = At(this, c, 1)

\* C10: row_echelon, determinant, inverse and rank leave their receiver as it
\* was, whether they return or throw.
C10_ReceiverUnchanged == [][this' = this]_vars

\* row_echelon returned a matrix that differs from its receiver: the
\* elimination changed entries of the matrix it worked on.
C10_Witness ==
    op = "row_echelon" /\ retM # this

----------------------------------------------------------------------------
\* The element-wise operations, the products and the container operations

\* The sum of a sequence of integers
RECURSIVE SumSeq(_)
SumSeq(q) == IF q = <<>> THEN 0 ELSE Head(q) + SumSeq(Tail(q))

\* The integer of entry i (from 0) of an input vector
IntOf(v, i) == v[i + 1][1]

\* The first argument of the call
Arg1 == args[1]

C12_MulMatIsProduct ==
    op = "mul_mat" =>
        IF cols(this) # rows(Arg1)
        THEN err = "invalid_argument"
        ELSE /\ err = "none"
             /\ ~ub
             /\ rows(retM) = rows(this)
             /\ cols(retM) = cols(Arg1)
             /\ \A r \in 0..(rows(this) - 1) : \A c \in 0..(cols(Arg1) - 1) :
                    At(retM, c, r) =
                        Lit(SumSeq([k \in 1..cols(this) |->
                                       IntAt(this, k - 1, r) * IntAt(Arg1, c, k - 1)]))

\* C13 as stated: a sub that follows an add with the same operand returns and
\* leaves the receiver, a vector or a matrix, with the entries it had before
\* the add.
C13_AddSubRoundTrip ==
    [][(op = "add" /\ op' = "sub") => (err' = "none" /\ this' = saved)]_vars

\* Entry i of the vector a + b, in a, was computed without rounding
ExactAt(a, b, sum, i) == sum[i] = XAdd(a[i], b[i])

\* The vector back has the size of the vector before, and the entries of
\* it whose sum in `sum` was computed without rounding
RestoredWhereExact(before, b, sum, back) ==
    /\ size(back) = size(before)
    /\ \A i \in 1..size(before) :
           ExactAt(before, b, sum, i) => back[i] = before[i]

\* C13: a sub that follows an add with the same operand returns and leaves
\* the receiver, a vector or a matrix, with the shape it had before the add
\* and with every entry it had before the add whose sum with the entry of
\* the operand was computed without rounding.
C13_AddSubRoundTripWhereExact ==
    [][(op = "add" /\ op' = "sub") =>
          /\ err' = "none"
          /\ recv = "Vector" => RestoredWhereExact(saved, Arg1, this, this')
          /\ recv = "Matrix" =>
                /\ cols(this') = cols(saved)
                /\ \A c \in 1..cols(saved) :
                       RestoredWhereExact(saved[c], Arg1[c], this[c], this'[c])]_vars

\* A vector of 3 entries is back to its first value after a sub whose
\* operand has a nonzero entry: the sub followed an add of that operand.
C13_Witness ==
    /\ recv = "Vector" /\ op = "sub" /\ err = "none"
    /\ size(this) = 3
    /\ \E i \in 1..3 : Arg1[i] # Zero
    /\ this = saved

\* C14: add, sub, dot, lerp and cross_product on vectors of different sizes
\* throw std::invalid_argument, return nothing and leave the receiver as it was.
C14_SizeMismatchThrows ==
    [][(/\ recv = "Vector"
        /\ op' \in {"add", "sub", "dot", "lerp", "cross_product"}
        /\ size(this) # size(args'[1]))
       => (/\ err' = "invalid_argument"
           /\ this' = this
           /\ retV' = <<>>
           /\ retS' = retS)]_vars

\* lerp threw on a vector of 3 entries and a vector of 2 entries.
C14_Witness ==
    /\ recv = "Vector" /\ op = "lerp" /\ err = "invalid_argument"
    /\ size(this) = 3 /\ size(Arg1) = 2

\* C15: a Matrix::add or Matrix::sub that throws leaves every column of the
\* receiver as it was before the call.
C15_AddSubAllOrNothing ==
    [][(recv = "Matrix" /\ op' \in {"add", "sub"} /\ err' # "none")
       => this' = this]_vars

\* C16: every matrix the caller holds or is returned has all its columns of
\* the length of column 0.
C16_ColumnsOfOneLength ==
    recv = "Matrix" => Rectangular(this) /\ Rectangular(retM)

\* C17: reshape(rows, cols) throws unless rows * cols is the size of the
\* vector; otherwise it returns a matrix of that many rows and columns whose
\* entry at row i, column j is v[i * cols + j], and leaves the vector as it was.
C17_ReshapeRowMajor ==
    op = "reshape" =>
        /\ this = saved
        /\ IF args[1] * args[2] # size(this)
           THEN err = "invalid_argument"
           ELSE /\ err = "none"
                /\ rows(retM) = args[1]
                /\ cols(retM) = args[2]
                /\ \A i \in 0..(args[1] - 1) : \A j \in 0..(args[2] - 1) :
                       At(retM, j, i) = this[i * args[2] + j + 1]

\* C18: transpose returns a matrix with rows() = A.cols() and cols() =
\* A.rows() whose entry (c,r) is A's entry (r,c), also for a matrix with
\* columns and no rows, and leaves A as it was.
C18_TransposeSwapsAxes ==
    op = "transpose" =>
        /\ this = saved
        /\ err = "none"
        /\ rows(retM) = cols(this)
        /\ cols(retM) = rows(this)
        /\ \A c \in 0..(cols(this) - 1) : \A r \in 0..(rows(this) - 1) :
               At(retM, r, c) = At(this, c, r)

C20_LerpEndpoints ==
    (op = "lerp" /\ err = "none") =>
        /\ args[2] = Zero => retV = this
        /\ args[2] = One => retV = Arg1

\* The exact sum over the first k vectors of scalars[i] * vectors[i][j]
RECURSIVE WeightedSum(_, _, _, _)
WeightedSum(vectors, scalars, j, k) ==
    IF k = 0 THEN Zero
    ELSE XAdd(WeightedSum(vectors, scalars, j, k - 1), XMul(scalars[k], vectors[k][j]))

\* Some vector of the list has not the size of the first
SomeOtherSize(vectors) == \E k \in 1..Len(vectors) : size(vectors[k]) # size(vectors[1])

\* C21: linear_combination throws when the two lists differ in length and
\* when a vector has not the size of the first; it returns the empty vector
\* for two empty lists, and otherwise the vector of the size of the first
\* whose entry j is the sum over i of scalars[i] * vectors[i][j].
C21_LinearCombination ==
    op = "linear_combination" =>
        /\ Len(args[1]) # Len(args[2]) => err = "invalid_argument"
        /\ (Len(args[1]) = Len(args[2]) /\ SomeOtherSize(args[1])) =>
               err = "invalid_argument"
        /\ (args[1] = <<>> /\ args[2] = <<>>) => (err = "none" /\ retV = <<>>)
        /\ (Len(args[1]) = Len(args[2]) /\ args[1] # <<>> /\ ~SomeOtherSize(args[1])) =>
               /\ err = "none"
               /\ size(retV) = size(args[1][1])
               /\ \A j \in 1..size(retV) :
                      retV[j] = WeightedSum(args[1], args[2], j, Len(args[1]))

\* linear_combination returned the combination of two vectors of 2 entries
\* with two nonzero scalars, an entry of it the sum of two nonzero terms.
C21_Witness ==
    /\ op = "linear_combination" /\ err = "none"
    /\ Len(args[1]) = 2 /\ size(retV) = 2
    /\ args[2][1] # Zero /\ args[2][2] # Zero
    /\ \E j \in 1..2 : args[1][1][j] # Zero /\ args[1][2][j] # Zero

\* The integers of the real and of the imaginary part of entry i (from 1)
\* of a complex vector
Re(v, i) == v[i][1][1]
Im(v, i) == v[i][2][1]

C23_DotConjugatesArgument ==
    (recv = "ComplexVector" /\ op = "dot" /\ err = "none") =>
        /\ retC[1] = Lit(SumSeq([i \in 1..size(this) |->
                 Re(this, i) * Re(Arg1, i) + Im(this, i) * Im(Arg1, i)]))
        /\ retC[2] = Lit(SumSeq([i \in 1..size(this) |->
                 Im(this, i) * Re(Arg1, i) - Re(this, i) * Im(Arg1, i)]))

\* C24: cross_product throws unless both vectors have 3 entries, and
\* otherwise returns (u1*v2 - u2*v1, u2*v0 - u0*v2, u0*v1 - u1*v0); it
\* leaves u as it was.
C24_CrossProduct ==
    op = "cross_product" =>
        /\ (err # "none") <=> (size(this) # 3 \/ size(Arg1) # 3)
        /\ err = "none" =>
               retV = <<Lit(IntOf(this, 1) * IntOf(Arg1, 2) - IntOf(this, 2) * IntOf(Arg1, 1)),
                        Lit(IntOf(this, 2) * IntOf(Arg1, 0) - IntOf(this, 0) * IntOf(Arg1, 2)),
                        Lit(IntOf(this, 0) * IntOf(Arg1, 1) - IntOf(this, 1) * IntOf(Arg1, 0))>>
        /\ this = saved

\* cross_product returned a vector with a positive and a negative entry.
C24_Witness ==
    /\ op = "cross_product" /\ err = "none"
    /\ \E i \in 1..3 : FLt(retV[i], Zero)
    /\ \E i \in 1..3 : FGt(retV[i], Zero)

\* The Euclidean norm of the vector is exactly zero: it has no nonzero entry
ZeroNorm(v) == \A i \in 1..size(v) : v[i] = Zero

\* C25: angle_cos throws std::invalid_argument when the sizes differ, also
\* when a norm is zero as well; it throws std::logic_error when the sizes are
\* equal and a norm is exactly zero; it returns only when neither is the case.
C25_AngleCosErrors ==
    op = "angle_cos" =>
        /\ size(this) # size(Arg1) => err = "invalid_argument"
        /\ (size(this) = size(Arg1) /\ (ZeroNorm(this) \/ ZeroNorm(Arg1))) =>
               err = "logic_error"
        /\ err = "none" =>
               (size(this) = size(Arg1) /\ ~ZeroNorm(this) /\ ~ZeroNorm(Arg1))

\* angle_cos threw std::invalid_argument on a zero vector of 3 entries and a
\* vector of 2 entries: both conditions held.
C25_Witness ==
    /\ op = "angle_cos" /\ err = "invalid_argument"
    /\ size(this) = 3 /\ ZeroNorm(this)
    /\ size(Arg1) = 2

\* The forward loop in the state s runs its iteration for row r
RunsRow(s, r) == ~s.returns /\ r < rows(s.m) /\ s.lead < cols(s.m)

\* The state of the forward loop after its iteration for row r, if it runs
AfterRow(s, r) == IF RunsRow(s, r) THEN ForwardRow(s.m, s.lead, r) ELSE s

\* The state [m, lead, returns] of the forward loop of row_echelon on m
\* before its iteration for row r
RECURSIVE ForwardBefore(_, _)
ForwardBefore(m, r) ==
    IF r = 0 THEN [m |-> m, lead |-> 0, returns |-> FALSE]
    ELSE AfterRow(ForwardBefore(m, r - 1), r - 1)

\* After the pivot search for row r on m ended with p at a row other than r:
\* the swap step has exchanged the rows r and p.i, the entry of row r in the
\* leading column is the nonzero pivot found, and the normalisation step
\* leaves a leading 1 in row r.
PivotSwappedIn(m, p, r) ==
    (~p.returns /\ p.i # r) =>
        /\ SwapStep(m, r, p.i) = SwapRows(m, r, p.i)
        /\ At(SwapStep(m, r, p.i), p.lead, r) = At(m, p.lead, p.i)
        /\ FNe(At(SwapStep(m, r, p.i), p.lead, r), Zero)
        /\ At(NormalizeStep(SwapStep(m, r, p.i), p.lead, r), p.lead, r) = One

\* The same for the iteration the forward loop runs in the state s
SwapBringsPivot(s, r) ==
    RunsRow(s, r) => PivotSwappedIn(s.m, FindPivot(s.m, s.lead, r, r), r)

\* C26: in every iteration of the forward pass of row_echelon whose pivot
\* search stops at a row i other than r, the swap step exchanges the rows r
\* and i: the entry of row r in the leading column is then the nonzero pivot
\* found, and the normalisation makes it a leading 1.
C26_SwapBringsPivotRow ==
    op = "row_echelon" =>
        \A r \in 0..(rows(this) - 1) : SwapBringsPivot(ForwardBefore(this, r), r)

\* The state [err, m] of the Gauss-Jordan loop after its step i, if it runs
AfterStep(g, i) ==
    IF g.err # "none" \/ i >= rows(g.m) THEN g ELSE GaussJordanStep(g.m, i)

\* The state of the Gauss-Jordan loop of inverse before its step i, from the
\* augmented matrix aug
RECURSIVE GaussJordanBefore(_, _)
GaussJordanBefore(aug, i) ==
    IF i = 0 THEN [err |-> "none", m |-> aug]
    ELSE AfterStep(GaussJordanBefore(aug, i - 1), i - 1)

\* `*this | identity` in inverse
Augmented(m) == Concat(m, Identity(rows(m))).m

\* inverse() on m runs its Gauss-Jordan loop
RunsGaussJordan(m) == is_square(m) /\ ~FEq(determinant(m), Zero)

\* Row p of aug is among the rows i .. n-1, no row among them has a larger
\* magnitude in column i and none before p has an equal one; the swapped
\* matrix sw has the rows i and p of aug exchanged in all the 2n columns.
LargestSwappedIn(aug, i, p, sw) ==
    /\ p \in i..(rows(aug) - 1)
    /\ \A j \in i..(rows(aug) - 1) : ~FGt(FAbs(At(aug, i, j)), FAbs(At(aug, i, p)))
    /\ \A j \in i..(p - 1) : FLt(FAbs(At(aug, i, j)), FAbs(At(aug, i, p)))
    /\ cols(aug) = 2 * rows(aug)
    /\ \A c \in 0..(cols(aug) - 1) :
           /\ At(sw, c, i) = At(aug, c, p)
           /\ At(sw, c, p) = At(aug, c, i)
           /\ \A r \in (0..(rows(aug) - 1)) \ {i, p} : At(sw, c, r) = At(aug, c, r)

\* The same for the step i the loop runs in the state g
PivotsLargest(g, i) ==
    g.err = "none" =>
        LargestSwappedIn(g.m, i, PivotRow(g.m, i, rows(g.m)),
                         InvSwap(g.m, i, PivotRow(g.m, i, rows(g.m))))

C28_NoDivisionByZeroPivot ==
    (op = "determinant" /\ is_square(this) /\ rows(this) >= 3) =>
        ~DetLoop(this).zerodiv

\* C29: rank() is at most the number of rows and at most the number of
\* columns of the matrix.
C29_RankAtMostMinDimension ==
    (op = "rank" /\ err = "none") => (retN <= rows(this) /\ retN <= cols(this))

\* C30: flatten() of the matrix v.reshape(rows, cols) returned is v.
C30_FlattenUndoesReshape ==
    (recv = "Vector" /\ op = "flatten") => retV = this

\* flatten returned the vector of 4 entries that was reshaped to a matrix of
\* 2 columns of 2 entries; its entries 1 and 2 differ.
C30_Witness ==
    /\ recv = "Vector" /\ op = "flatten"
    /\ size(this) = 4 /\ cols(retM) = 2 /\ rows(retM) = 2
    /\ this[2] # this[3]
    /\ retV = this

====
